---- MODULE Spec2Model ----
(***************************************************************************)
(* State-machine model of the ESP32 Daly BMS BLE reader                    *)
(* (src/esp32_bms_platformio/src/main.cpp, src/utils.h, src/config.h).     *)
(*                                                                         *)
(* Two flows of control are modelled: the Arduino main task (setup, loop   *)
(* and every function loop calls, positions in pc) and the BLE stack task  *)
(* that runs notifyCallback (positions in cb).                             *)
(*                                                                         *)
(* Time.  The program reads millis() only in differences                   *)
(* millis() - lastX, each compared with one interval.  The model keeps     *)
(* these differences (the record age) instead of millis() and the lastX    *)
(* stamps: a delay adds to every difference, lastX = millis() sets one to  *)
(* 0.  A difference that has reached its interval stays there, since the   *)
(* code only asks whether it is below the interval.                        *)
(*                                                                         *)
(* deviceCount, which scanForBMS and onResult keep for the log only, is    *)
(* left out; heard counts the advertisements of the running scan.          *)
(*                                                                         *)
(* Floats of BMSData are kept as exact integers in the smallest unit the   *)
(* code produces (mV, mA, 0.1 %, mAh, uAh).                                *)
(***************************************************************************)
EXTENDS Integers, Sequences, FiniteSets, TLC

(***************************************************************************)
(* Bounds of the exploration                                               *)
(***************************************************************************)
\* inputs of the environment in one run: lines the operator types that
\* change state, notifications, losses of the link
MaxEvents == 1
\* advertisements reported in one scan
MaxScanResults == 1
\* notifications in the runs with a burst of notifications
MaxBurst == 2
\* changes of the session and long stretches in the runs that follow
\* millis()
MaxClockEvents == 2
\* milliseconds of delay() those runs follow step by step
MaxRun == 12000

(***************************************************************************)
(* Program constants                                                       *)
(***************************************************************************)
READ_INTERVAL == 5000
SCAN_INTERVAL == 30000
CONNECT_INTERVAL == 10000
MAX_RECONNECT_ATTEMPTS == 5
INFO_TIMEOUT == 3000
POLL_DELAY == 10
SETUP_DELAY == 1000
IDLE_DELAY == 1000
CONNECTED_DELAY == 100
SEND_DELAY == 50
SCAN_DURATION == 10000
MIN_FRAME_HEX == 16
MIN_INFO_LEN == 124
MIN_DALY_LEN == 13
CURRENT_OFFSET == 30000
TEMP_OFFSET == 40
Word16 == 65536
Word8 == 256

\* The runs are observed on the grid of the idle loop, one delay(1000):
\* PollBurst iterations of a wait loop and LoopBurst iterations of the
\* connected loop that find nothing to do are taken in one step
PollBurst == IDLE_DELAY \div POLL_DELAY
LoopBurst == IDLE_DELAY \div CONNECTED_DELAY

TARGET_BMS_MAC == "41:18:12:01:18:9F"
TARGET_BMS_NAME == "DL-41181201189F"

(***************************************************************************)
(* Bytes, hex text and checksums                                           *)
(***************************************************************************)
Byte == 0..255

\* data[i] of the C code (0-based) on a TLA+ sequence (1-based)
At(data, i) == data[i + 1]

\* (data[i] << 8) | data[i + 1]
Word(data, i) == At(data, i) * 256 + At(data, i + 1)

\* the hex text notifyCallback appends for one byte: "0" padding, then
\* String(b, HEX); kept as the two hexadecimal digits
HexOfByte(b) == <<b \div 16, b % 16>>

HexOfBytes(bytes) ==
    [k \in 1..(2 * Len(bytes)) |->
        IF k % 2 = 1 THEN HexOfByte(bytes[(k + 1) \div 2])[1]
        ELSE HexOfByte(bytes[k \div 2])[2]]

\* dataLen = hex.length() / 2; data[i] = strtol(hex.substring(2i, 2i + 2))
BytesOfHex(hex) ==
    [i \in 1..(Len(hex) \div 2) |-> hex[2 * i - 1] * 16 + hex[2 * i]]

RECURSIVE SumBytes(_, _)
SumBytes(data, length) ==
    IF length = 0 THEN 0
    ELSE (SumBytes(data, length - 1) + data[length]) % Word8

\* variant: the sum starts from the frame header instead of 0
calculateChecksumSeeded(data, length) ==
    (165 + SumBytes(data, length)) % Word8

calculateChecksum(data, length) == SumBytes(data, length)

verifyChecksum(data, length) ==
    IF length < 2 THEN FALSE
    ELSE SumBytes(data, length - 1) = data[length]

RECURSIVE XorBits(_, _, _)
XorBits(a, b, n) ==
    IF n = 0 THEN 0
    ELSE (((a % 2) + (b % 2)) % 2) + 2 * XorBits(a \div 2, b \div 2, n - 1)

RECURSIVE CrcShift(_, _)
CrcShift(crc, k) ==
    IF k = 0 THEN crc
    ELSE CrcShift(IF crc % 2 = 1 THEN XorBits(crc \div 2, 40961, 16)
                  ELSE crc \div 2, k - 1)

\* one byte of the CRC loop: crc ^= b, then eight shift steps
CrcByte(crc, b) == CrcShift(XorBits(crc, b, 16), 8)

\* the CRC after the bytes lo..hi of data, crc being the value before them
\* (the range is halved so that the evaluation stays shallow)
RECURSIVE CrcRange(_, _, _, _)
CrcRange(data, lo, hi, crc) ==
    IF lo > hi THEN crc
    ELSE IF lo = hi THEN CrcByte(crc, data[lo])
    ELSE LET mid == (lo + hi) \div 2
             left == CrcRange(data, lo, mid, crc)
         IN  IF left >= 0 THEN CrcRange(data, mid + 1, hi, left) ELSE left

\* CRC-16/MODBUS over all of data (poly 0xA001, seed 0xFFFF)
Crc16(data) == CrcRange(data, 1, Len(data), 65535)

\* Frame Codec verdicts
ChecksumFrameValid(data) ==
    /\ Len(data) >= MIN_DALY_LEN
    /\ At(data, 0) = 165
    /\ verifyChecksum(data, Len(data))

CrcFrameValid(data) ==
    /\ Len(data) = 129
    /\ At(data, 0) = 210
    /\ At(data, 1) = 3
    /\ Word(data, 127) = Crc16(SubSeq(data, 1, 127))

(***************************************************************************)
(* BMSData (floats as exact integers: voltage mV, current mA, soc 0.1 %,   *)
(* full_capacity mAh, remaining_capacity uAh)                              *)
(***************************************************************************)
BMSDataInit ==
    [voltage |-> 0, current |-> 0, soc |-> 0,
     max_cell_voltage |-> 0, min_cell_voltage |-> 0,
     max_temp |-> 0, min_temp |-> 0, cycles |-> 0,
     protection_status |-> FALSE,
     remaining_capacity |-> 0, full_capacity |-> 0]

\* conversion of an int to int8_t, then of an int8_t to uint8_t
ToInt8(x) == ((x + 128) % Word8) - 128
ToUint8(x) == x % Word8

MinOf(S) == CHOOSE x \in S : \A y \in S : x <= y

(***************************************************************************)
(* tryProperDalyProtocol: decoding of the main-info response               *)
(***************************************************************************)
CellInRange(v) == v > 2560 /\ v < 4608

\* one round of the cell loop for a cell voltage v in the range
CountCell(acc, v) ==
    [total |-> (acc.total + v) % Word16,
     max |-> IF v > acc.max THEN v ELSE acc.max,
     min |-> IF v < acc.min THEN v ELSE acc.min,
     count |-> acc.count + 1]

\* the cell loop: totalVoltage (uint16_t), max, min, cellCount after n cells
\* (the value after n - 1 cells is bound once, so that it is computed once)
RECURSIVE CellAcc(_, _)
CellAcc(data, n) ==
    IF n = 0 THEN [total |-> 0, max |-> 0, min |-> 65535, count |-> 0]
    ELSE LET i == n - 1
         IN  CHOOSE next \in
                 {IF 3 + i * 2 + 1 < Len(data)
                        /\ CellInRange(Word(data, 3 + i * 2))
                  THEN CountCell(acc, Word(data, 3 + i * 2))
                  ELSE acc : acc \in {CellAcc(data, n - 1)}} : TRUE

\* positions i in from..dataLen-2 whose big-endian word is a plausible count
CycleHits(data, from, limit) ==
    {i \in from..(Len(data) - 2) :
        Word(data, i) > 0 /\ Word(data, i) < limit}

\* the first part of the decoding: the cell voltages
DecodeCells(data, bms) ==
    LET acc == CellAcc(data, 16)
    IN  IF acc.count > 0
        THEN [bms EXCEPT !.voltage = acc.total,
                         !.max_cell_voltage = acc.max,
                         !.min_cell_voltage = acc.min]
        ELSE bms

\* the rest of the decoding: soc, temperature, current, cycles
DecodeRest(data, b1) ==
    LET socRaw == Word(data, 68)
        b2 == IF Len(data) > 70 /\ socRaw >= 256 /\ socRaw <= 1000
              THEN [b1 EXCEPT !.soc = socRaw]
              ELSE b1
        tempRaw == At(data, 69)
        temp == ToInt8(tempRaw - TEMP_OFFSET)
        b3 == IF Len(data) > 69 /\ tempRaw >= 40 /\ tempRaw <= 120
              THEN [b2 EXCEPT !.max_temp = ToUint8(temp),
                              !.min_temp = ToUint8(temp)]
              ELSE b2
        currentRaw == Word(data, 70)
        b4 == IF Len(data) > 72 /\ currentRaw >= 29000 /\ currentRaw <= 31000
              THEN [b3 EXCEPT !.current = (currentRaw - CURRENT_OFFSET) * 100]
              ELSE b3
        hits1 == CycleHits(data, 80, 5000)
        b5 == IF hits1 # {}
              THEN [b4 EXCEPT !.cycles = Word(data, MinOf(hits1))]
              ELSE b4
        hits2 == CycleHits(data, 100, 10000)
        b6 == IF b5.cycles = 0 /\ Len(data) > 110 /\ hits2 # {}
              THEN [b5 EXCEPT !.cycles = Word(data, MinOf(hits2))]
              ELSE b5
    IN  b6

DecodeInfo(data, bms) == DecodeRest(data, DecodeCells(data, bms))

\* is the response accepted for decoding (lines 437 and 447)
InfoAccepted(hex) ==
    /\ Len(hex) >= MIN_FRAME_HEX
    /\ Len(hex) \div 2 >= MIN_INFO_LEN
    /\ At(BytesOfHex(hex), 0) = 210
    /\ At(BytesOfHex(hex), 1) = 3

ParseInfoResponse(hex, bms) ==
    IF InfoAccepted(hex) THEN DecodeInfo(BytesOfHex(hex), bms) ELSE bms

(***************************************************************************)
(* parseDalyResponse: decoding of the 13-byte checksum-variant responses   *)
(***************************************************************************)
DalyAccepted(hex) ==
    /\ Len(hex) \div 2 >= MIN_DALY_LEN
    /\ At(BytesOfHex(hex), 0) = 165

\* variant: the current is computed in 16 bits without a sign
DecodeDalyUnsigned(command, data, bms) ==
    [bms EXCEPT !.voltage = Word(data, 4) * 100,
                !.current = ((Word(data, 6) - CURRENT_OFFSET) % Word16) * 100,
                !.soc = Word(data, 8)]

DecodeDaly(command, data, bms) ==
    LET b1 ==
          CASE command = 144 ->
                 [bms EXCEPT !.voltage = Word(data, 4) * 100,
                             !.current =
                                 (Word(data, 6) - CURRENT_OFFSET) * 100,
                             !.soc = Word(data, 8)]
            [] command = 145 ->
                 [bms EXCEPT !.max_cell_voltage = Word(data, 4),
                             !.min_cell_voltage = Word(data, 7)]
            [] command = 146 ->
                 [bms EXCEPT
                    !.max_temp = ToUint8(ToInt8(At(data, 4) - TEMP_OFFSET)),
                    !.min_temp = ToUint8(ToInt8(At(data, 6) - TEMP_OFFSET))]
            [] command = 147 ->
                 [bms EXCEPT
                    !.protection_status = (At(data, 4) = 1 /\ At(data, 5) = 1),
                    !.full_capacity = Word(data, 7) * Word16 + Word(data, 9)]
            [] command = 148 ->
                 [bms EXCEPT !.cycles = Word(data, 9)]
            [] OTHER -> bms
    IN  IF b1.soc > 0 /\ b1.full_capacity > 0
        THEN [b1 EXCEPT !.remaining_capacity = b1.soc * b1.full_capacity]
        ELSE b1

\* variant: a response that echoes another command is not decoded
parseDalyResponseStrict(command, hex, bms) ==
    IF DalyAccepted(hex) /\ At(BytesOfHex(hex), 2) = command
    THEN DecodeDaly(command, BytesOfHex(hex), bms)
    ELSE bms

parseDalyResponse(command, hex, bms) ==
    IF DalyAccepted(hex)
    THEN DecodeDaly(command, BytesOfHex(hex), bms)
    ELSE bms

(***************************************************************************)
(* Frames on the wire                                                      *)
(***************************************************************************)
\* sendDalyCommand: A5 80 [command] 08 00 x 8 [checksum]
DalyMessage(command) ==
    LET head == <<165, 128, command, 8, 0, 0, 0, 0, 0, 0, 0, 0>>
    IN  head \o <<calculateChecksum(head, 12)>>

\* HEAD_READ + CMD_INFO
InfoCommand == <<210, 3, 0, 0, 0, 62, 215, 185>>

\* a checksum-variant response A5 40 [command] 08 [payload] [checksum]
DalyResponse(command, payload) ==
    LET head == <<165, 64, command, 8>> \o payload
    IN  head \o <<calculateChecksum(head, 12)>>

\* a main-info response body d2 03 7c + cell voltages + ... (127 bytes)
InfoBody(cell, soc, cur, cyc) ==
    [i \in 1..127 |->
        LET k == i - 1
        IN  CASE k = 0 -> 210
              [] k = 1 -> 3
              [] k = 2 -> 124
              [] k >= 3 /\ k <= 34 ->
                   IF (k - 3) % 2 = 0 THEN cell[((k - 3) \div 2) + 1] \div 256
                   ELSE cell[((k - 3) \div 2) + 1] % 256
              [] k = 68 -> soc \div 256
              [] k = 69 -> soc % 256
              [] k = 70 -> cur \div 256
              [] k = 71 -> cur % 256
              [] k = 80 -> cyc \div 256
              [] k = 81 -> cyc % 256
              [] OTHER -> 0]

(***************************************************************************)
(* The environment: advertising devices, GATT profiles of the peripheral   *)
(***************************************************************************)
TargetDevice == [name |-> TARGET_BMS_NAME, mac |-> TARGET_BMS_MAC]
OtherBms == [name |-> "Daly-BMS-2", mac |-> "AA:BB:CC:00:00:02"]
Headset == [name |-> "Headset", mac |-> "AA:BB:CC:00:00:03"]
Devices == {TargetDevice, OtherBms, Headset}

\* names in which indexOf finds "Daly", "BMS", "DL-" or "41181201189F"
BmsLikeNames == {TARGET_BMS_NAME, "Daly-BMS-2"}

IsTarget(d) == d.mac = TARGET_BMS_MAC \/ d.name = TARGET_BMS_NAME
LooksLikeBms(d) == d.name \in BmsLikeNames \/ IsTarget(d)

\* what getServices / getCharacteristic / canNotify / getDescriptor answer
FullProfile ==
    [fff0 |-> TRUE, fff1 |-> TRUE, fff2 |-> TRUE, notify |-> TRUE,
     cccd |-> TRUE, s02f0 |-> TRUE]
NoWriteChar == [FullProfile EXCEPT !.fff2 = FALSE, !.s02f0 = FALSE]
NoNotifyChar == [FullProfile EXCEPT !.fff1 = FALSE, !.s02f0 = FALSE]
NoService == [FullProfile EXCEPT !.fff0 = FALSE, !.s02f0 = FALSE]
NoDescriptor == [FullProfile EXCEPT !.cccd = FALSE]
CannotNotify == [FullProfile EXCEPT !.notify = FALSE]
GattProfiles == {FullProfile, NoWriteChar, NoDescriptor}

\* how long pClient->connect blocks
ConnectDurations == {1000}

\* frames the peripheral may notify
GoodCells == <<3400, 3100, 3250, 3250, 3250, 3250, 3250, 3250,
               3250, 3250, 3250, 3250, 3250, 3250, 3250, 3250>>
LowCells == [i \in 1..16 |-> 3000]
\* sixteen cells at 4.2 V, together more than 65535 mV
HighCells == [i \in 1..16 |-> 4200]
\* one cell below the range the decoder counts
DeepCells == [i \in 1..16 |-> IF i = 1 THEN 2500 ELSE 3250]
FrameIds ==
    {"InfoGood", "InfoBadCrc", "InfoTruncated", "InfoHigh", "InfoDeep",
     "InfoLate", "DalyGood", "DalyBadSum", "DalyShort"}

\* the frames the peripheral notifies in the explored runs
NotifiedFrames == {"InfoGood", "InfoBadCrc", "DalyShort"}

\* InfoGood, InfoHigh, InfoDeep and InfoLate carry the CRC-16/MODBUS of
\* their body, InfoBadCrc does not; InfoLate has no plausible cycle count
\* below 5000 from byte 80 on, but one below 10000 from byte 100 on;
\* DalyGood carries the 8-bit sum of its first 12 bytes, DalyBadSum does not
FrameOf(id) ==
    CASE id = "InfoGood" ->
           InfoBody(GoodCells, 530, 29950, 12) \o <<171, 144>>
      [] id = "InfoBadCrc" ->
           InfoBody(LowCells, 800, 30100, 13) \o <<132, 225>>
      [] id = "InfoTruncated" ->
           SubSeq(InfoBody(LowCells, 900, 30200, 14), 1, 124)
      [] id = "InfoHigh" ->
           InfoBody(HighCells, 530, 29950, 12) \o <<122, 92>>
      [] id = "InfoDeep" ->
           InfoBody(DeepCells, 530, 29950, 12) \o <<54, 3>>
      [] id = "InfoLate" ->
           [i \in 1..127 |->
               IF i > 80 THEN 32
               ELSE InfoBody(GoodCells, 530, 29950, 0)[i]] \o <<203, 173>>
      [] id = "DalyGood" ->
           DalyResponse(144, <<2, 8, 117, 48, 2, 18, 0, 0>>)
      [] id = "DalyBadSum" ->
           <<165, 64, 144, 8, 1, 244, 117, 148, 3, 32, 0, 0, 0>>
      [] OTHER -> <<165, 64, 144, 8>>

(***************************************************************************)
(* State                                                                   *)
(***************************************************************************)
VARIABLES
    discovered_bms_mac,     \* "" when no candidate is stored
    discovered_bms_name,
    bms_found_by_scan,
    pClient,                \* TRUE when pClient is not nullptr
    connected,
    bmsData,
    heard,                  \* advertisements the running scan has reported
    connectionAttempts,
    autoConnect,
    lastResponse,           \* hex text, a sequence of digit values
    responseReceived,
    pc,                     \* position of the main task
    ret,                    \* where the function the main task is in returns,
                            \* "none" outside scanForBMS, connectToBMS,
                            \* readBMSData
    cb,                     \* position of notifyCallback in the BLE task
    cbData,                 \* the frame notifyCallback was called with
    age,                    \* millis() - lastReadTime, - lastScanTime,
                            \* - lastConnectionAttempt
    waited,                 \* millis() - startTime inside the wait loop
    linkUp,                 \* pClient->isConnected()
    gatt,                   \* what the connected peripheral offers
    notifyEnabled,          \* notifyCallback registered and CCCD written
    eventsLeft,             \* inputs the environment may still make
    outstanding,            \* commands written whose wait has not ended
    failures,               \* failed connects in a row since the last
                            \* success or discard
    attemptAge,             \* time since connectToBMS last started
    attemptGap,             \* attemptAge when the running attempt started
    lastEvent,              \* what the main task did last
    command,                \* the command parseDalyResponse is called for
    data,                   \* the byte array tryProperDalyProtocol decodes,
                            \* <<>> outside the decoding
    report,                 \* the snapshot as tryMultipleServices printed
                            \* it last
    message,                \* message[] as sendDalyCommand wrote it last
    delivered,              \* a notification was delivered since the
                            \* command of the running request was written
    clock                   \* millis() and the stamps as the 32-bit values
                            \* the code holds, followed where the wrap of
                            \* millis() is examined

candidate == <<discovered_bms_mac, discovered_bms_name, bms_found_by_scan>>
session == <<pClient, connected, connectionAttempts, autoConnect>>
response == <<lastResponse, responseReceived>>
control == <<pc, ret>>
callback == <<cb, cbData>>
clocks == <<age, attemptAge, waited>>
link == <<linkUp, gatt, notifyEnabled>>
decoder == <<command, data, report, message, delivered, clock>>
vars ==
    <<candidate, session, response, control, callback, clocks, link,
      eventsLeft, bmsData, heard, outstanding, failures, attemptGap,
      lastEvent, command, data, report, message, delivered, clock>>

NoAttempt == 0 - 1

\* a 32-bit unsigned value as its two 16-bit halves
Long(h, l) == [hi |-> h, lo |-> l]

\* millis() and the stamps when setup starts
ClockAtBoot ==
    [millis |-> Long(0, 0), lastReadTime |-> Long(0, 0),
     lastScanTime |-> Long(0, 0), lastConnectionAttempt |-> Long(0, 0),
     startTime |-> Long(0, 0), run |-> 0]

\* nothing has been printed yet
NoReport == [printed |-> FALSE]

\* the globals as they are initialised, the environment having `events'
\* inputs to make
Boot(events) ==
    /\ discovered_bms_mac = ""
    /\ discovered_bms_name = ""
    /\ bms_found_by_scan = FALSE
    /\ pClient = FALSE
    /\ connected = FALSE
    /\ bmsData = BMSDataInit
    /\ heard = 0
    /\ connectionAttempts = 0
    /\ autoConnect = TRUE
    /\ lastResponse = <<>>
    /\ responseReceived = FALSE
    /\ pc = "setup"
    /\ ret = "none"
    /\ cb = "idle"
    /\ cbData = "none"
    /\ age = [read |-> 0, scan |-> 0, connect |-> 0]
    /\ waited = 0
    /\ linkUp = FALSE
    /\ gatt = NoService
    /\ notifyEnabled = FALSE
    /\ eventsLeft = events
    /\ outstanding = 0
    /\ failures = 0
    /\ attemptAge = [any |-> NoAttempt, tick |-> NoAttempt]
    /\ attemptGap = [any |-> NoAttempt, tick |-> NoAttempt]
    /\ lastEvent = "boot"
    /\ command = 0
    /\ data = <<>>
    /\ report = NoReport
    /\ message = <<>>
    /\ delivered = FALSE
    /\ clock = ClockAtBoot

Init == Boot(MaxEvents)

(***************************************************************************)
(* Time                                                                    *)
(***************************************************************************)
\* the interval each difference is compared with
Interval ==
    [read |-> READ_INTERVAL, scan |-> SCAN_INTERVAL,
     connect |-> CONNECT_INTERVAL]

Later(a, d, cap) == IF a + d > cap THEN cap ELSE a + d

\* the differences after delay(d)
Advance(a, d) == [f \in DOMAIN a |-> Later(a[f], d, Interval[f])]

AdvanceAttempt(h, d) ==
    [f \in DOMAIN h |->
        IF h[f] = NoAttempt THEN NoAttempt
        ELSE Later(h[f], d, CONNECT_INTERVAL)]

\* delay(d) in the main task outside the wait loop, a being the
\* differences before the delay
Delay(a, d) ==
    /\ age' = Advance(a, d)
    /\ attemptAge' = AdvanceAttempt(attemptAge, d)
    /\ UNCHANGED waited

\* the session state of the specification, read off the globals
SessionState ==
    IF pc = "connecting" THEN "Connecting"
    ELSE IF connected THEN (IF linkUp THEN "Connected" ELSE "Lost")
    ELSE IF discovered_bms_mac # "" THEN "CandidateKnown"
    ELSE "Idle"

(***************************************************************************)
(* scanForBMS and the scan callback                                        *)
(***************************************************************************)
\* scanForBMS up to the blocking pBLEScan->start
BeginScan(r) ==
    /\ heard' = 0
    /\ pc' = "scanning"
    /\ ret' = r

\* MyAdvertisedDeviceCallbacks::onResult
OnResult(d) ==
    /\ pc = "scanning"
    /\ heard < MaxScanResults
    /\ heard' = heard + 1
    /\ IF LooksLikeBms(d) /\ IsTarget(d)
       THEN /\ discovered_bms_mac' = d.mac
            /\ discovered_bms_name' = d.name
            /\ bms_found_by_scan' = TRUE
       ELSE IF LooksLikeBms(d) /\ discovered_bms_mac = ""
       THEN /\ discovered_bms_mac' = d.mac
            /\ discovered_bms_name' = d.name
            /\ UNCHANGED bms_found_by_scan
       ELSE UNCHANGED candidate
    /\ UNCHANGED <<session, response, control, callback, clocks, link,
                   eventsLeft, bmsData, outstanding, failures, attemptGap,
                   lastEvent>>
    /\ UNCHANGED decoder

\* pBLEScan->start returns after the scan duration; scanForBMS returns
ScanEnd ==
    /\ pc = "scanning"
    /\ Delay(age, SCAN_DURATION)
    /\ pc' = ret
    /\ ret' = "none"
    /\ heard' = 0
    /\ lastEvent' = "scanned"
    /\ UNCHANGED <<candidate, session, response, callback, link,
                   eventsLeft, bmsData, outstanding, failures, attemptGap>>
    /\ UNCHANGED decoder

\* setup
Setup ==
    /\ pc = "setup"
    /\ Delay(age, SETUP_DELAY)
    /\ BeginScan("loop")
    /\ UNCHANGED <<candidate, session, response, callback, link, eventsLeft,
                   bmsData, outstanding, failures, attemptGap, lastEvent>>
    /\ UNCHANGED decoder

(***************************************************************************)
(* connectToBMS                                                            *)
(***************************************************************************)
\* variant: a candidate is taken to be there
CandidateAssumed == TRUE

\* discovered_bms_mac.length() > 0
CandidateKnown == discovered_bms_mac # ""

\* connectToBMS up to the blocking pClient->connect; byTick tells the
\* caller (loop or the operator's connect command)
BeginConnect(r, byTick) ==
    /\ CandidateKnown
    /\ connectionAttempts' = connectionAttempts + 1
    /\ pClient' = TRUE
    /\ linkUp' = FALSE
    /\ notifyEnabled' = FALSE
    /\ pc' = "connecting"
    /\ ret' = r
    /\ attemptGap' =
         [any |-> attemptAge.any,
          tick |-> IF byTick THEN attemptAge.tick ELSE attemptGap.tick]
    /\ attemptAge' =
         [any |-> 0, tick |-> IF byTick THEN 0 ELSE attemptAge.tick]
    /\ lastEvent' = IF byTick THEN "tick_connect" ELSE "operator_connect"
    /\ UNCHANGED <<candidate, connected, autoConnect, response, callback,
                   age, waited, gatt, bmsData, heard, outstanding, failures>>

\* variant: the candidate is given up one failure later
LimitOneLater(attempts) == attempts >= MAX_RECONNECT_ATTEMPTS + 1

\* variant: the candidate is given up two failures later
LimitTwoLater(attempts) == attempts >= MAX_RECONNECT_ATTEMPTS + 2

ConnectFailureLimit(attempts) == attempts >= MAX_RECONNECT_ATTEMPTS

\* variant: a failed connect leaves the flag as it was
FlagKept(flag) == flag

\* connected = false in the failure branch
FlagAfterFailure(flag) == FALSE

\* pClient->connect returns and connectToBMS runs to its end
ConnectResult(ok, d, profile) ==
    /\ pc = "connecting"
    /\ Delay(age, d)
    /\ pc' = ret
    /\ IF ok
       THEN /\ linkUp' = TRUE
            /\ gatt' = profile
            /\ connected' = TRUE
            /\ connectionAttempts' = 0
            /\ lastEvent' = "connect_ok"
            /\ UNCHANGED candidate
       ELSE /\ connected' = FlagAfterFailure(connected)
            /\ UNCHANGED <<linkUp, gatt>>
            /\ IF ConnectFailureLimit(connectionAttempts)
               THEN /\ connectionAttempts' = 0
                    /\ discovered_bms_mac' = ""
                    /\ lastEvent' = "connect_discard"
               ELSE /\ UNCHANGED <<connectionAttempts, discovered_bms_mac>>
                    /\ lastEvent' = "connect_failed"
            /\ UNCHANGED <<discovered_bms_name, bms_found_by_scan>>
    /\ ret' = "none"
    /\ attemptGap' = [any |-> NoAttempt, tick |-> NoAttempt]
    /\ failures' = IF ok \/ failures + 1 >= MAX_RECONNECT_ATTEMPTS
                   THEN 0 ELSE failures + 1
    /\ UNCHANGED <<pClient, autoConnect, response, callback, notifyEnabled,
                   eventsLeft, bmsData, heard, outstanding>>
    /\ UNCHANGED decoder

(***************************************************************************)
(* readBMSData, tryMultipleServices, tryProperDalyProtocol                 *)
(***************************************************************************)
\* variant: the guard does not ask the transport
ReadAllowedByFlag == connected /\ pClient

\* the guard of readBMSData
ReadAllowed == connected /\ pClient /\ linkUp

\* the fff0 service with its fff1 and fff2 characteristics was found
CharacteristicsFound == gatt.fff0 /\ gatt.fff1 /\ gatt.fff2

\* variant: the write is not followed by the wait
ReturnAfterWrite(r) == r

\* where the main task goes after pTxChar->writeValue: into the wait for
\* the response, before it returns to r
AfterWrite(r) == "info_written"

\* readBMSData from its guard to the write of the info command
BeginRead(r) ==
    /\ IF ~ReadAllowed
       THEN /\ pc' = r
            /\ lastEvent' = "read_not_connected"
            /\ UNCHANGED <<ret, notifyEnabled, outstanding>>
       ELSE IF ~CharacteristicsFound
       THEN /\ pc' = r
            /\ lastEvent' = "read_no_characteristics"
            /\ UNCHANGED <<ret, notifyEnabled, outstanding>>
       ELSE /\ notifyEnabled' = (notifyEnabled \/ (gatt.notify /\ gatt.cccd))
            /\ outstanding' = outstanding + 1
            /\ pc' = AfterWrite(r)
            /\ ret' = r
            /\ lastEvent' = "info_written"
    /\ UNCHANGED <<candidate, session, response, callback, clocks, linkUp,
                   gatt, bmsData, heard, failures, attemptGap>>

\* variant: the flag is left as the callback set it
InfoKeepFlag ==
    /\ pc = "info_written"
    /\ waited' = 0
    /\ pc' = "info_wait"
    /\ UNCHANGED <<candidate, session, response, ret, callback, age,
                   attemptAge, link, eventsLeft, bmsData, heard, outstanding,
                   failures, attemptGap, lastEvent>>
    /\ UNCHANGED decoder

\* responseReceived = false; startTime = millis()
InfoClear ==
    /\ pc = "info_written"
    /\ responseReceived' = FALSE
    /\ waited' = 0
    /\ pc' = "info_wait"
    /\ UNCHANGED <<candidate, session, lastResponse, ret, callback, age,
                   attemptAge, link, eventsLeft, bmsData, heard, outstanding,
                   failures, attemptGap, lastEvent>>
    /\ UNCHANGED decoder

\* variant: the loop goes round once more at the timeout
StillWaitingAtTimeout(timeout) == ~responseReceived /\ waited <= timeout

\* the condition of the wait loop
StillWaiting(timeout) == ~responseReceived /\ waited < timeout

\* iterations of the wait loop left before the timeout
PollsLeft(timeout) == (timeout - waited + POLL_DELAY - 1) \div POLL_DELAY

\* up to PollBurst iterations of while (...) delay(10), never past the
\* timeout
InfoPoll ==
    /\ pc = "info_wait"
    /\ StillWaiting(INFO_TIMEOUT)
    /\ LET left == PollsLeft(INFO_TIMEOUT)
           k == IF left < 1 THEN 1
                ELSE IF left < PollBurst THEN left ELSE PollBurst
       IN  /\ age' = Advance(age, k * POLL_DELAY)
           /\ attemptAge' = AdvanceAttempt(attemptAge, k * POLL_DELAY)
           /\ waited' = waited + k * POLL_DELAY
    /\ UNCHANGED <<candidate, session, response, control, callback, link,
                   eventsLeft, bmsData, heard, outstanding, failures,
                   attemptGap, lastEvent>>
    /\ UNCHANGED decoder

\* the wait loop ends
InfoExit ==
    /\ pc = "info_wait"
    /\ ~StillWaiting(INFO_TIMEOUT)
    /\ pc' = "info_check"
    /\ UNCHANGED <<candidate, session, response, ret, callback, clocks,
                   link, eventsLeft, bmsData, heard, outstanding, failures,
                   attemptGap, lastEvent>>
    /\ UNCHANGED decoder

\* the response is read into data[] and, when its length and header pass,
\* the cell voltages are decoded into bmsData
InfoDecode ==
    /\ pc = "info_check"
    /\ responseReceived
    /\ data = <<>>
    /\ InfoAccepted(lastResponse)
    /\ data' = BytesOfHex(lastResponse)
    /\ bmsData' = DecodeCells(data', bmsData)
    /\ UNCHANGED <<candidate, session, response, control, callback, clocks,
                   link, eventsLeft, heard, outstanding, failures,
                   attemptGap, lastEvent, command, report, message,
                   delivered, clock>>

\* variant: the report is printed before the decoding
ReportedBeforeDecode(before, after) == before

\* what tryMultipleServices prints after tryProperDalyProtocol returned
Reported(before, after) == after

\* the rest of if (responseReceived) { parse } else { no response }, the
\* return to tryMultipleServices, which prints the snapshot, and the
\* return to the caller of readBMSData
InfoFinish ==
    /\ pc = "info_check"
    /\ IF responseReceived
       THEN /\ data = <<>> => ~InfoAccepted(lastResponse)
            /\ bmsData' = IF data # <<>> THEN DecodeRest(data, bmsData)
                           ELSE bmsData
            /\ responseReceived' = FALSE
            /\ lastEvent' = IF data # <<>>
                            THEN "info_decoded" ELSE "info_ignored"
       ELSE /\ lastEvent' = "info_timeout"
            /\ UNCHANGED <<bmsData, responseReceived>>
    /\ data' = <<>>
    /\ report' = Reported(bmsData, bmsData')
    /\ delivered' = FALSE
    /\ outstanding' = outstanding - 1
    /\ pc' = ret
    /\ ret' = "none"
    /\ waited' = 0
    /\ UNCHANGED <<candidate, session, lastResponse, callback, age,
                   attemptAge, link, eventsLeft, heard, failures, attemptGap,
                   command, message, clock>>

(***************************************************************************)
(* notifyCallback, in the BLE task                                         *)
(***************************************************************************)
\* the stack calls notifyCallback with a frame; lastResponse = ""
NotifyBegin(f) ==
    /\ cb = "idle"
    /\ linkUp
    /\ notifyEnabled
    /\ eventsLeft > 0
    /\ eventsLeft' = eventsLeft - 1
    /\ cbData' = f
    /\ lastResponse' = <<>>
    /\ cb' = "copying"
    /\ UNCHANGED <<candidate, session, responseReceived, control, clocks,
                   link, bmsData, heard, outstanding, failures, attemptGap,
                   lastEvent>>
    /\ UNCHANGED decoder

\* the loop that appends the hex digits of every byte
NotifyCopy ==
    /\ cb = "copying"
    /\ lastResponse' = HexOfBytes(FrameOf(cbData))
    /\ cb' = "copied"
    /\ UNCHANGED <<candidate, session, responseReceived, control, cbData,
                   clocks, link, eventsLeft, bmsData, heard,
                   outstanding, failures, attemptGap, lastEvent>>
    /\ UNCHANGED decoder

\* the main task is between the write of a command and the end of the
\* wait for its response
AwaitingResponse == pc \in {"info_written", "info_wait"}

\* responseReceived = true
NotifySet ==
    /\ cb = "copied"
    /\ responseReceived' = TRUE
    /\ cb' = "idle"
    /\ cbData' = "none"
    /\ delivered' = (delivered \/ AwaitingResponse)
    /\ UNCHANGED <<candidate, session, lastResponse, control, clocks, link,
                   eventsLeft, bmsData, heard, outstanding, failures,
                   attemptGap, lastEvent, command, data, report, message,
                   clock>>

\* the peripheral goes away
LinkDrop ==
    /\ linkUp
    /\ eventsLeft > 0
    /\ eventsLeft' = eventsLeft - 1
    /\ linkUp' = FALSE
    /\ UNCHANGED <<candidate, session, response, control, callback, clocks,
                   gatt, notifyEnabled, bmsData, heard, outstanding, failures,
                   attemptGap, lastEvent>>
    /\ UNCHANGED decoder

(***************************************************************************)
(* handleSerialCommands: one action for every line the operator may type   *)
(***************************************************************************)
Typed ==
    /\ pc = "loop"
    /\ eventsLeft > 0
    /\ eventsLeft' = eventsLeft - 1

CmdScan ==
    /\ Typed
    /\ BeginScan("tick")
    /\ UNCHANGED <<candidate, session, response, callback, clocks, link,
                   bmsData, outstanding, failures, attemptGap, lastEvent>>
    /\ UNCHANGED decoder

CmdConnect ==
    /\ Typed
    /\ IF CandidateKnown
       THEN BeginConnect("tick", FALSE)
       ELSE /\ pc' = "tick"
            /\ UNCHANGED <<candidate, session, response, ret, callback,
                           clocks, link, bmsData, heard, outstanding, failures,
                           attemptGap, lastEvent>>
    /\ UNCHANGED decoder

CmdData ==
    /\ Typed
    /\ IF connected
       THEN BeginRead("tick")
       ELSE /\ pc' = "tick"
            /\ UNCHANGED <<candidate, session, response, ret, callback,
                           clocks, link, bmsData, heard, outstanding, failures,
                           attemptGap, lastEvent>>
    /\ UNCHANGED decoder

CmdAuto ==
    /\ Typed
    /\ autoConnect' = ~autoConnect
    /\ pc' = "tick"
    /\ UNCHANGED <<candidate, pClient, connected, connectionAttempts,
                   response, ret, callback, clocks, link, bmsData,
                   heard, outstanding, failures, attemptGap, lastEvent>>
    /\ UNCHANGED decoder

\* variant: the reset leaves the transport as it is
CmdResetKeepsLink ==
    /\ Typed
    /\ discovered_bms_mac' = ""
    /\ discovered_bms_name' = ""
    /\ bms_found_by_scan' = FALSE
    /\ connected' = FALSE
    /\ pc' = "tick"
    /\ lastEvent' = "reset"
    /\ UNCHANGED <<pClient, connectionAttempts, autoConnect, response, ret,
                   callback, clocks, link, bmsData, heard, outstanding,
                   failures, attemptGap>>
    /\ UNCHANGED decoder

CmdReset ==
    /\ Typed
    /\ discovered_bms_mac' = ""
    /\ discovered_bms_name' = ""
    /\ bms_found_by_scan' = FALSE
    /\ connected' = FALSE
    /\ linkUp' = FALSE
    /\ pc' = "tick"
    /\ lastEvent' = "reset"
    /\ UNCHANGED <<pClient, connectionAttempts, autoConnect, response, ret,
                   callback, clocks, gatt, notifyEnabled, bmsData,
                   heard, outstanding, failures, attemptGap>>
    /\ UNCHANGED decoder

(***************************************************************************)
(* loop.  An iteration that makes no blocking call is one step; a call to  *)
(* scanForBMS, connectToBMS or readBMSData ends the step and the rest of   *)
(* the iteration follows when the call returns.                            *)
(***************************************************************************)
\* variant: no minimum interval between the attempts of loop
ConnectGateAlwaysOpen == TRUE

\* variant: loop never scans
ScanGateShut == FALSE

ConnectGateOpen == age.connect >= CONNECT_INTERVAL

\* variant: loop connects whether auto-connect is on or off
ConnectDueWithoutAuto == discovered_bms_mac # ""

\* autoConnect && discovered_bms_mac.length() > 0
ConnectDue == autoConnect /\ CandidateKnown
ScanGateOpen == age.scan >= SCAN_INTERVAL
ReadGateOpen == age.read >= READ_INTERVAL

\* the periodic scan of the not-connected branch, or its delay(1000); a
\* holds the differences when this part of loop is reached
ScanPart(a) ==
    IF ScanGateOpen
    THEN /\ BeginScan("tick_scanned")
         /\ age' = a
         /\ UNCHANGED <<attemptAge, waited>>
    ELSE /\ Delay(a, IDLE_DELAY)
         /\ pc' = "loop"
         /\ UNCHANGED <<ret, heard>>

\* iterations of loop, this one included, until a read is due
IterationsToRead(a) ==
    IF a.read < READ_INTERVAL
    THEN (READ_INTERVAL - a.read + CONNECTED_DELAY - 1) \div CONNECTED_DELAY
    ELSE 1

\* variant: the check reports a loss whatever the transport says
LinkLostAlways == TRUE

\* variant: the check reports a loss as soon as a client exists
LinkLostWithClient == pClient

\* variant: the check never reports a loss
LinkNeverLost == FALSE

\* pClient && !pClient->isConnected()
LinkLost == pClient /\ ~linkUp

\* the connection check of the connected branch and its delay(100); when
\* the link is up, up to LoopBurst iterations of loop that find no serial
\* input and no read due are taken in this step
CheckPart(a) ==
    /\ IF LinkLost
       THEN /\ connected' = FALSE
            /\ lastEvent' = "lost"
            /\ Delay(a, CONNECTED_DELAY)
       ELSE /\ UNCHANGED <<connected, lastEvent>>
            /\ LET k == IF IterationsToRead(a) < LoopBurst
                        THEN IterationsToRead(a) ELSE LoopBurst
               IN  Delay(a, k * CONNECTED_DELAY)
    /\ pc' = "loop"

\* loop after handleSerialCommands
RestOfLoop ==
    IF ~connected
    THEN IF ConnectDue /\ ConnectGateOpen
         THEN BeginConnect("tick_attempted", TRUE)
         ELSE /\ ScanPart(age)
              /\ UNCHANGED <<candidate, session, response, callback, link,
                             bmsData, outstanding, failures, attemptGap,
                             lastEvent>>
    ELSE IF ReadGateOpen
         THEN BeginRead("tick_read_done")
         ELSE /\ CheckPart(age)
              /\ UNCHANGED <<candidate, pClient, connectionAttempts,
                             autoConnect, response, ret, callback, link,
                             bmsData, heard, outstanding, failures,
                             attemptGap>>

\* an iteration of loop in which Serial.available() is false or the line
\* only prints (status, help, services, an unknown word)
Loop ==
    /\ pc = "loop"
    /\ RestOfLoop
    /\ UNCHANGED eventsLeft
    /\ UNCHANGED decoder

\* the rest of the iteration after a command of the operator
Tick ==
    /\ pc = "tick"
    /\ RestOfLoop
    /\ UNCHANGED eventsLeft
    /\ UNCHANGED decoder

\* lastConnectionAttempt = millis(), then the scan part
TickAttempted ==
    /\ pc = "tick_attempted"
    /\ ScanPart([age EXCEPT !.connect = 0])
    /\ UNCHANGED <<candidate, session, response, callback, link, eventsLeft,
                   bmsData, outstanding, failures, attemptGap, lastEvent>>
    /\ UNCHANGED decoder

\* lastScanTime = millis(); delay(1000)
TickScanned ==
    /\ pc = "tick_scanned"
    /\ Delay([age EXCEPT !.scan = 0], IDLE_DELAY)
    /\ pc' = "loop"
    /\ UNCHANGED <<candidate, session, response, ret, callback, link,
                   eventsLeft, bmsData, heard, outstanding, failures,
                   attemptGap, lastEvent>>
    /\ UNCHANGED decoder

\* lastReadTime = millis(), then the connection check
TickReadDone ==
    /\ pc = "tick_read_done"
    /\ CheckPart([age EXCEPT !.read = 0])
    /\ UNCHANGED <<candidate, pClient, connectionAttempts, autoConnect,
                   response, ret, callback, link, eventsLeft, bmsData,
                   heard, outstanding, failures, attemptGap>>
    /\ UNCHANGED decoder

Next ==
    \/ Setup
    \/ \E d \in Devices : OnResult(d)
    \/ ScanEnd
    \/ \E ok \in BOOLEAN, d \in ConnectDurations, profile \in GattProfiles :
          ConnectResult(ok, d, profile)
    \/ InfoClear
    \/ InfoPoll
    \/ InfoExit
    \/ InfoDecode
    \/ InfoFinish
    \/ \E f \in NotifiedFrames : NotifyBegin(f)
    \/ NotifyCopy
    \/ NotifySet
    \/ LinkDrop
    \/ Loop
    \/ CmdScan
    \/ CmdConnect
    \/ CmdData
    \/ CmdAuto
    \/ CmdReset
    \/ Tick
    \/ TickAttempted
    \/ TickScanned
    \/ TickReadDone

Spec == Init /\ [][Next]_vars

\* the steps of the main task that need no input: loop runs for ever and
\* each of its blocking calls returns (the scan after its duration,
\* pClient->connect with success or failure, the wait at its timeout)
MainStep ==
    \/ Setup
    \/ ScanEnd
    \/ \E ok \in BOOLEAN, d \in ConnectDurations, profile \in GattProfiles :
          ConnectResult(ok, d, profile)
    \/ InfoClear
    \/ InfoPoll
    \/ InfoExit
    \/ InfoDecode
    \/ InfoFinish
    \/ Loop
    \/ Tick
    \/ TickAttempted
    \/ TickScanned
    \/ TickReadDone

\* the program with a main task that is scheduled fairly
SpecLive == Spec /\ WF_vars(MainStep)

\* the same, with a target that keeps advertising: among the scans that
\* run, some report it
SpecAdvertising == SpecLive /\ SF_vars(OnResult(TargetDevice))

\* the same program with a peripheral that notifies up to MaxBurst frames,
\* enough for two notifications in a row, while the operator types nothing
\* and the link stays up
InitBurst == Boot(MaxBurst)

NextBurst ==
    \/ Setup
    \/ \E d \in Devices : OnResult(d)
    \/ ScanEnd
    \/ \E ok \in BOOLEAN, d \in ConnectDurations, profile \in GattProfiles :
          ConnectResult(ok, d, profile)
    \/ InfoClear
    \/ InfoPoll
    \/ InfoExit
    \/ InfoDecode
    \/ InfoFinish
    \/ \E f \in NotifiedFrames : NotifyBegin(f)
    \/ NotifyCopy
    \/ NotifySet
    \/ Loop
    \/ TickAttempted
    \/ TickScanned
    \/ TickReadDone

SpecBurst == InitBurst /\ [][NextBurst]_vars

(***************************************************************************)
(* The decoders on their own: the end of a request, with the response and  *)
(* the snapshot before it drawn from sets of cases                         *)
(***************************************************************************)
\* the two bytes of a 16-bit value, high byte first
Bytes2(v) == <<v \div 256, v % 256>>

\* a 0x90 response: voltage, current, soc
VcsFrame(v, c, s) ==
    DalyResponse(144, Bytes2(v) \o Bytes2(c) \o Bytes2(s) \o <<0, 0>>)

\* a 0x92 response: max temperature and its sensor, min and its sensor
TempFrame(maxRaw, minRaw) ==
    DalyResponse(146, <<maxRaw, 1, minRaw, 2, 0, 0, 0, 0>>)

\* a 0x91 response: max cell voltage and its cell, min and its cell
CellRangeFrame == DalyResponse(145, <<13, 72, 5, 12, 28, 9, 0, 0>>)

\* a 0x93 response: both MOS on, 20000 mAh
MosFrame == DalyResponse(147, <<1, 1, 12, 0, 0, 78, 32, 0>>)

\* a 0x94 response: 12 cycles
StatusFrame == DalyResponse(148, <<16, 2, 1, 1, 0, 0, 12, 0>>)

RawVoltages == {0, 1, 520, 65535}
RawCurrents == {0, 29999, 30000, 30001, 65535}
RawSocs == {0, 1, 1000, 65535}

\* a snapshot that differs from the initial one and from every frame in
\* every field
PriorFull ==
    [voltage |-> 48000, current |-> 0 - 1500, soc |-> 875,
     max_cell_voltage |-> 3500, min_cell_voltage |-> 3000,
     max_temp |-> 25, min_temp |-> 20, cycles |-> 77,
     protection_status |-> TRUE,
     remaining_capacity |-> 17500000, full_capacity |-> 20000]

Priors == {BMSDataInit, PriorFull}

\* the requests that end: which function waits, for which command, and
\* the frame that was notified
DalyCase(c, f) == [at |-> "daly_check", command |-> c, frame |-> f]
\* a call of sendDalyCommand with command id c
SendCase(c) == [at |-> "daly_send", command |-> c, frame |-> <<>>]
InfoCase(id) == [at |-> "info_check", command |-> 0, frame |-> FrameOf(id)]
\* a call of validateResponse with a buffer of at most n bytes and the
\* expected command c
ValidateCase(f, n, c) ==
    [at |-> "validate", command |-> c,
     frame |-> SubSeq(f, 1, IF n < Len(f) THEN n ELSE Len(f))]

CodecCases ==
    {DalyCase(144, VcsFrame(v, c, s)) :
        v \in RawVoltages, c \in RawCurrents, s \in RawSocs}
    \cup {DalyCase(146, TempFrame(r, 255 - r)) : r \in Byte}
    \cup {DalyCase(145, CellRangeFrame), DalyCase(147, MosFrame),
          DalyCase(148, StatusFrame), DalyCase(149, StatusFrame),
          DalyCase(144, CellRangeFrame), DalyCase(146, VcsFrame(520, 0, 1)),
          DalyCase(144, FrameOf("DalyBadSum")),
          DalyCase(144, FrameOf("DalyShort")),
          DalyCase(144, FrameOf("InfoGood"))}
    \cup {InfoCase(id) : id \in FrameIds}
    \cup {SendCase(c) : c \in Byte}
    \cup {ValidateCase(FrameOf(id), n, c) :
             id \in {"DalyGood", "DalyShort", "InfoTruncated"},
             n \in 0..13, c \in {2, 144}}

InitCodec ==
    /\ discovered_bms_mac = TARGET_BMS_MAC
    /\ discovered_bms_name = TARGET_BMS_NAME
    /\ bms_found_by_scan = TRUE
    /\ pClient = TRUE
    /\ connected = TRUE
    /\ bmsData \in Priors
    /\ heard = 0
    /\ connectionAttempts = 0
    /\ autoConnect = TRUE
    /\ responseReceived \in BOOLEAN
    /\ \E c \in CodecCases :
          /\ pc = c.at
          /\ command = c.command
          /\ lastResponse = HexOfBytes(c.frame)
          /\ data = IF c.at = "validate" THEN c.frame ELSE <<>>
    /\ ret = "tick_read_done"
    /\ cb = "idle"
    /\ cbData = "none"
    /\ age = [read |-> 0, scan |-> 0, connect |-> 0]
    /\ waited = 0
    /\ linkUp = TRUE
    /\ gatt = FullProfile
    /\ notifyEnabled = TRUE
    /\ eventsLeft = 0
    /\ outstanding = IF pc \in {"daly_send", "validate"} THEN 0 ELSE 1
    /\ failures = 0
    /\ attemptAge = [any |-> NoAttempt, tick |-> NoAttempt]
    /\ attemptGap = [any |-> NoAttempt, tick |-> NoAttempt]
    /\ lastEvent = "waited"
    /\ report = NoReport
    /\ message = <<>>
    /\ delivered = FALSE
    /\ clock = ClockAtBoot

\* sendDalyCommandAndWait after its wait loop: a response, whatever it is,
\* is handed to parseDalyResponse and the function returns true
DalyFinish ==
    /\ pc = "daly_check"
    /\ IF responseReceived
       THEN /\ bmsData' = parseDalyResponse(command, lastResponse, bmsData)
            /\ responseReceived' = FALSE
            /\ lastEvent' = IF DalyAccepted(lastResponse)
                            THEN "daly_decoded" ELSE "daly_rejected"
            /\ pc' = "daly_true"
       ELSE /\ lastEvent' = "daly_timeout"
            /\ pc' = "daly_false"
            /\ UNCHANGED <<bmsData, responseReceived>>
    /\ outstanding' = outstanding - 1
    /\ UNCHANGED <<candidate, session, lastResponse, ret, callback, clocks,
                   link, eventsLeft, heard, failures, attemptGap, decoder>>

\* sendDalyCommand: the message is built and written, delay(50), return
\* true
DalySend ==
    /\ pc = "daly_send"
    /\ message' = DalyMessage(command)
    /\ outstanding' = outstanding + 1
    /\ Delay(age, SEND_DELAY)
    /\ pc' = "daly_sent"
    /\ lastEvent' = "daly_written"
    /\ UNCHANGED <<candidate, session, response, ret, callback, link,
                   eventsLeft, bmsData, heard, failures, attemptGap,
                   command, data, report, delivered, clock>>

\* the indices of response[] that validateResponse reads
ValidateReads(buffer, length) ==
    IF length < 4 THEN {}
    ELSE IF At(buffer, 0) # 165 THEN {0}
    ELSE {0, 4}

\* validateResponse, beyond being the byte that lies behind the buffer
validateResponse(buffer, length, expectedCommand, beyond) ==
    IF length < 4 THEN FALSE
    ELSE IF At(buffer, 0) # 165 THEN FALSE
    ELSE (IF 4 < length THEN At(buffer, 4) ELSE beyond) = expectedCommand

\* validateResponse is called with the buffer data[] and returns
ValidateResponse ==
    /\ pc = "validate"
    /\ \E beyond \in Byte :
          pc' = IF validateResponse(data, Len(data), command, beyond)
                THEN "validate_true" ELSE "validate_false"
    /\ lastEvent' = "validated"
    /\ UNCHANGED <<candidate, session, response, ret, callback, clocks,
                   link, eventsLeft, bmsData, heard, outstanding, failures,
                   attemptGap, decoder>>

NextCodec ==
    \/ InfoDecode
    \/ InfoFinish
    \/ DalyFinish
    \/ DalySend
    \/ ValidateResponse

SpecCodec == InitCodec /\ [][NextCodec]_vars

(***************************************************************************)
(* millis() as a 32-bit value                                              *)
(*                                                                         *)
(* The gates of loop() and the wait loop are followed with the unsigned    *)
(* 32-bit values the code computes with, next to the differences age and   *)
(* waited.  connectToBMS, scanForBMS and the decoding are taken to return  *)
(* at once: each stamp is taken after its operation has returned.          *)
(***************************************************************************)
\* a + d in unsigned long
Add32(a, d) ==
    Long((a.hi + d.hi + (a.lo + d.lo) \div Word16) % Word16,
         (a.lo + d.lo) % Word16)

\* a - b in unsigned long
Sub32(a, b) ==
    Long((a.hi - b.hi - (IF a.lo < b.lo THEN 1 ELSE 0) + Word16) % Word16,
         (a.lo - b.lo + Word16) % Word16)

\* millis() - stamp >= n, for n below 65536
Elapsed32(c, stamp, n) ==
    Sub32(c.millis, stamp).hi > 0 \/ Sub32(c.millis, stamp).lo >= n

ConnectGate32(c) == Elapsed32(c, c.lastConnectionAttempt, CONNECT_INTERVAL)
ScanGate32(c) == Elapsed32(c, c.lastScanTime, SCAN_INTERVAL)
ReadGate32(c) == Elapsed32(c, c.lastReadTime, READ_INTERVAL)
WaitOver32(c) == Elapsed32(c, c.startTime, INFO_TIMEOUT)

\* lastConnectionAttempt = millis() when the connect branch is taken
ConnectStamp(c) ==
    IF autoConnect /\ CandidateKnown /\ ConnectGate32(c)
    THEN [c EXCEPT !.lastConnectionAttempt = c.millis] ELSE c

\* lastScanTime = millis() when the scan branch is taken
ScanStamp(c) ==
    IF ScanGate32(c) THEN [c EXCEPT !.lastScanTime = c.millis] ELSE c

\* the differences after the stamps of one iteration of loop(), c being
\* the clock before and d the clock after them
Stamped(a, c, d) ==
    [read |-> IF d.lastReadTime # c.lastReadTime THEN 0 ELSE a.read,
     scan |-> IF d.lastScanTime # c.lastScanTime THEN 0 ELSE a.scan,
     connect |-> IF d.lastConnectionAttempt # c.lastConnectionAttempt
                 THEN 0 ELSE a.connect]

\* delay(d), c and a being the clock and the differences before it
ClockDelay(c, a, d) ==
    /\ c.run + d <= MaxRun
    /\ clock' = [c EXCEPT !.millis = Add32(c.millis, Long(0, d)),
                          !.run = c.run + d]
    /\ age' = Advance(a, d)

\* the loop has run some 49 days in the same session
Stretches == {Long(65535, 64036), Long(65535, 61536)}

InitClock ==
    /\ discovered_bms_mac = TARGET_BMS_MAC
    /\ discovered_bms_name = TARGET_BMS_NAME
    /\ bms_found_by_scan = TRUE
    /\ pClient = TRUE
    /\ connected = FALSE
    /\ bmsData = BMSDataInit
    /\ heard = 0
    /\ connectionAttempts = 0
    /\ autoConnect = TRUE
    /\ lastResponse = <<>>
    /\ responseReceived = FALSE
    /\ pc = "clock_loop"
    /\ ret = "none"
    /\ cb = "idle"
    /\ cbData = "none"
    /\ age = [read |-> 0, scan |-> 0, connect |-> 0]
    /\ waited = 0
    /\ linkUp = FALSE
    /\ gatt = NoService
    /\ notifyEnabled = FALSE
    /\ eventsLeft = MaxClockEvents
    /\ outstanding = 0
    /\ failures = 0
    /\ attemptAge = [any |-> NoAttempt, tick |-> NoAttempt]
    /\ attemptGap = [any |-> NoAttempt, tick |-> NoAttempt]
    /\ lastEvent = "boot"
    /\ command = 0
    /\ data = <<>>
    /\ report = NoReport
    /\ message = <<>>
    /\ delivered = FALSE
    /\ clock = ClockAtBoot

\* one iteration of loop(): the gates of the session state are tested and
\* stamped, then delay(1000) or delay(100); an open read gate leads into
\* the wait loop of the request
ClockLoop ==
    /\ pc = "clock_loop"
    /\ IF ~connected
       THEN /\ ClockDelay(ScanStamp(ConnectStamp(clock)),
                          Stamped(age, clock, ScanStamp(ConnectStamp(clock))),
                          IDLE_DELAY)
            /\ UNCHANGED <<pc, waited>>
       ELSE IF ReadGate32(clock)
            THEN /\ clock' = [clock EXCEPT !.startTime = clock.millis]
                 /\ waited' = 0
                 /\ pc' = "clock_wait"
                 /\ UNCHANGED age
            ELSE /\ ClockDelay(clock, age, CONNECTED_DELAY)
                 /\ UNCHANGED <<pc, waited>>
    /\ UNCHANGED <<candidate, session, response, ret, callback, attemptAge,
                   link, eventsLeft, bmsData, heard, outstanding, failures,
                   attemptGap, lastEvent, command, data, report, message,
                   delivered>>

\* one test of the wait loop: delay(10) while no response has come and the
\* timeout has not passed, else lastReadTime = millis() and the rest of the
\* iteration of loop()
ClockPoll ==
    /\ pc = "clock_wait"
    /\ IF ~responseReceived /\ ~WaitOver32(clock)
       THEN /\ ClockDelay(clock, age, POLL_DELAY)
            /\ waited' = Later(waited, POLL_DELAY, INFO_TIMEOUT)
            /\ UNCHANGED pc
       ELSE /\ ClockDelay([clock EXCEPT !.lastReadTime = clock.millis],
                          [age EXCEPT !.read = 0], CONNECTED_DELAY)
            /\ waited' = 0
            /\ pc' = "clock_loop"
    /\ UNCHANGED <<candidate, session, response, ret, callback, attemptAge,
                   link, eventsLeft, bmsData, heard, outstanding, failures,
                   attemptGap, lastEvent, command, data, report, message,
                   delivered>>

\* a connect succeeds, or loop() notices that the link is lost
ClockSession ==
    /\ pc = "clock_loop"
    /\ eventsLeft > 0
    /\ eventsLeft' = eventsLeft - 1
    /\ connected' = ~connected
    /\ UNCHANGED <<candidate, pClient, connectionAttempts, autoConnect,
                   response, control, callback, clocks, link, bmsData,
                   heard, outstanding, failures, attemptGap, lastEvent,
                   decoder>>

\* loop() runs for a long stretch in the same session state: the gates it
\* tests are stamped by its last iteration, the stamps of the others stay
ClockStretch ==
    /\ pc = "clock_loop"
    /\ eventsLeft > 0
    /\ eventsLeft' = eventsLeft - 1
    /\ \E d \in Stretches :
          LET m == Add32(clock.millis, d)
          IN  IF connected
              THEN /\ clock' = [clock EXCEPT !.millis = m,
                                             !.lastReadTime = m]
                   /\ age' = [read |-> 0, scan |-> SCAN_INTERVAL,
                              connect |-> CONNECT_INTERVAL]
              ELSE /\ clock' = [clock EXCEPT !.millis = m,
                                             !.lastScanTime = m,
                                             !.lastConnectionAttempt = m]
                   /\ age' = [read |-> READ_INTERVAL, scan |-> 0,
                              connect |-> 0]
    /\ UNCHANGED <<candidate, session, response, control, callback,
                   attemptAge, waited, link, bmsData, heard, outstanding,
                   failures, attemptGap, lastEvent, command, data, report,
                   message, delivered>>

NextClock ==
    \/ ClockLoop
    \/ ClockPoll
    \/ ClockSession
    \/ ClockStretch

SpecClock == InitClock /\ [][NextClock]_vars

(***************************************************************************)
(* Properties                                                              *)
(***************************************************************************)
\* the main task returns from the wait of a request
RequestEnds == pc = "info_check" /\ pc' # "info_check"

\* pClient->connect has returned
ConnectEnds == pc = "connecting" /\ pc' # "connecting"

\* loop notices that the transport is down
LossObserved == connected /\ ~connected' /\ lastEvent' = "lost"

\* C1: a field of the snapshot changes only when the frame that is decoded
\* passed the validation of the frame codec (length, header, CRC)
C1_SnapshotOnlyFromValidFrame ==
    [][bmsData' # bmsData => CrcFrameValid(BytesOfHex(lastResponse))]_vars

\* C2: at most one request awaits its response: a command is outstanding
\* exactly while the main task is between the write and the end of the wait,
\* and a write happens only when none is outstanding
C2_SingleOutstandingRequest ==
    /\ outstanding \in {0, 1}
    /\ outstanding = 1 <=> pc \in {"info_written", "info_wait", "info_check"}

C2_Witness == outstanding = 1 /\ pc = "info_wait" /\ waited > 0

\* C3: the fifth failed connect in a row clears the candidate and leaves
\* the session Idle, an earlier failure keeps the candidate, and a success
\* sets the failure counter to 0
C3_FailureBudget ==
    [][ConnectEnds =>
        /\ linkUp' => connectionAttempts' = 0
        /\ ~linkUp' /\ failures = MAX_RECONNECT_ATTEMPTS - 1 =>
              /\ discovered_bms_mac' = ""
              /\ connectionAttempts' = 0
              /\ SessionState' = "Idle"
        /\ ~linkUp' /\ failures < MAX_RECONNECT_ATTEMPTS - 1 =>
              /\ discovered_bms_mac' = discovered_bms_mac
              /\ connectionAttempts' = failures + 1]_vars

C3_Witness ==
    /\ lastEvent = "connect_discard"
    /\ discovered_bms_mac = ""
    /\ connectionAttempts = 0
    /\ pc = "tick_attempted"

\* C4: the wait of a request ends no later than the timeout; the request
\* is cleared whatever the outcome; when no notification arrived the
\* outcome is a timeout at the timeout and the snapshot is unchanged
C4_TimeoutEndsRequest ==
    [][RequestEnds =>
        /\ waited <= INFO_TIMEOUT
        /\ outstanding' = 0
        /\ pc' \in {"tick", "tick_read_done"}
        /\ ~responseReceived =>
              /\ lastEvent' = "info_timeout"
              /\ waited = INFO_TIMEOUT
              /\ bmsData' = bmsData
              /\ ~responseReceived']_vars

C4_Witness ==
    /\ lastEvent = "info_timeout"
    /\ pc = "tick_read_done"
    /\ outstanding = 0
    /\ linkUp

\* the transitions of the session state machine as the specification
\* lists them
ListedTransitions ==
    {<<"Idle", "CandidateKnown">>, <<"CandidateKnown", "Connecting">>,
     <<"Connecting", "Connected">>, <<"Connecting", "CandidateKnown">>,
     <<"Connecting", "Idle">>, <<"Connected", "Lost">>, <<"Lost", "Idle">>}

\* the transitions of the operator's connect and reset commands and of the
\* connection check of loop
OperatorTransitions ==
    {<<"Connected", "Connecting">>, <<"Lost", "Connecting">>,
     <<"CandidateKnown", "Idle">>, <<"Connected", "Idle">>,
     <<"Lost", "CandidateKnown">>}

\* C5 as stated: the session state changes only along the listed
\* transitions
C5_OnlyListedTransitions ==
    [][SessionState' # SessionState =>
        <<SessionState, SessionState'>> \in ListedTransitions]_vars

\* C5 as the code has it: the session state changes only along the listed
\* transitions, the operator's connect from Connected or Lost, the
\* operator's reset from any state with a candidate, and Lost to
\* CandidateKnown when loop notices the loss
C5_OnlyProgramTransitions ==
    [][SessionState' # SessionState =>
        <<SessionState, SessionState'>> \in
            ListedTransitions \cup OperatorTransitions]_vars

C5_Witness ==
    /\ pc = "connecting"
    /\ connected
    /\ linkUp = FALSE
    /\ lastEvent = "operator_connect"

\* C6: once the transport is down, a request that awaits its response is
\* failed at once: the wait loop does not go on sleeping
C6_LossFailsRequest ==
    [][~linkUp /\ pc = "info_wait" => waited' = waited]_vars

\* C7 as stated: when loop notices the loss the session is Idle, without a
\* candidate
C7_LossLeadsToIdle ==
    [][LossObserved =>
        discovered_bms_mac' = "" /\ SessionState' = "Idle"]_vars

\* C7 as the code has it: loop notices a loss only when the transport is
\* down, and the session is then CandidateKnown with the candidate it was
\* connected to
C7_LossKeepsCandidate ==
    [][LossObserved =>
        /\ ~linkUp
        /\ discovered_bms_mac' = discovered_bms_mac
        /\ discovered_bms_mac' # ""
        /\ SessionState' = "CandidateKnown"]_vars

C7_Witness ==
    /\ lastEvent = "lost"
    /\ pc = "loop"
    /\ ~connected
    /\ discovered_bms_mac # ""

\* C8 as stated: a connect attempt starts at least 10 s after the attempt
\* before it, whoever started either
C8_AttemptsSpaced ==
    pc = "connecting" =>
        attemptGap.any = NoAttempt \/ attemptGap.any >= CONNECT_INTERVAL

\* C8 as the code has it: an attempt started by loop comes at least 10 s
\* after the attempt loop started before it; the operator's connect is not
\* held back
C8_LoopAttemptsSpaced ==
    pc = "connecting" /\ lastEvent = "tick_connect" =>
        attemptGap.tick = NoAttempt \/ attemptGap.tick >= CONNECT_INTERVAL

C8_Witness ==
    /\ pc = "connecting"
    /\ lastEvent = "tick_connect"
    /\ attemptGap.tick >= CONNECT_INTERVAL

\* C9: the session is Connected only when the fff0 service with its fff1
\* and fff2 characteristics has been found
C9_ConnectedHasCharacteristics ==
    SessionState = "Connected" => CharacteristicsFound

\* C10: while the session is not connected no command is written, and a
\* read that is refused changes nothing of the snapshot
C10_NoReadWhenNotConnected ==
    [][~(connected /\ pClient /\ linkUp) =>
        /\ outstanding' <= outstanding
        /\ lastEvent' = "read_not_connected" =>
              bmsData' = bmsData /\ outstanding' = outstanding]_vars

C10_Witness ==
    /\ lastEvent = "read_not_connected"
    /\ pc = "tick_read_done"
    /\ connected
    /\ ~linkUp
    /\ outstanding = 0

\* the main task has left the wait with a response to decode
ResponseSeen == pc = "info_check" /\ responseReceived

\* C11: once the main task has seen that the response of its command
\* arrived, that response is what it decodes: a further notification does
\* not replace it
C11_ResponseNotReplaced ==
    [][ResponseSeen => lastResponse' = lastResponse]_vars

\* C12: whenever the main task has seen that a response arrived, the
\* buffer it reads holds all the bytes of one notification, never the
\* empty or half-written buffer of a callback that is still running
C12_ResponseBufferComplete ==
    ResponseSeen =>
        \E f \in NotifiedFrames : lastResponse = HexOfBytes(FrameOf(f))

\* C17: the snapshot is printed only when no decoding is under way, and
\* what is printed is the snapshot with the whole of the last decoding in
\* it; while a decoding is under way the callback, the only code that runs
\* beside it, leaves the snapshot and the report alone
C17_ReportFromCompleteDecode ==
    [][/\ report' # report => data' = <<>> /\ report' = bmsData'
       /\ data # <<>> /\ cb' # cb =>
              bmsData' = bmsData /\ report' = report]_vars

C17_Witness ==
    /\ data # <<>>
    /\ cb = "copying"
    /\ bmsData.voltage = 52000
    /\ bmsData.soc = 0
    /\ report = NoReport

\* the bytes of the response a request ends with
Received == BytesOfHex(lastResponse)

\* sendDalyCommandAndWait returns with a response
DalyEnds == pc = "daly_check" /\ pc' = "daly_true"

\* tryProperDalyProtocol takes the response for decoding
InfoTaken == pc = "info_check" /\ data = <<>> /\ data' # <<>>

\* C13: a checksum-variant response is decoded only when it has at least
\* 13 bytes, starts with A5 and ends with the 8-bit sum of the bytes
\* before it
C13_ChecksumValidation ==
    [][DalyEnds /\ lastEvent' = "daly_decoded" =>
          ChecksumFrameValid(Received)]_vars

\* C14: a CRC-variant response is taken for decoding only when it has 129
\* bytes, starts with D2 03 and ends with the CRC-16/MODBUS of the 127
\* bytes before it
C14_CrcValidation ==
    [][InfoTaken => CrcFrameValid(data')]_vars

\* the sixteen cell words of a bulk frame and their sum
CellWords(d) == [n \in 1..16 |-> Word(d, 3 + 2 * (n - 1))]

RECURSIVE SumTo(_, _)
SumTo(w, n) == IF n = 0 THEN 0 ELSE SumTo(w, n - 1) + w[n]

\* C15: decoding a valid 129-byte bulk frame sets the pack voltage to the
\* sum of the sixteen cell words (mV), the max cell voltage to the largest
\* and the min cell voltage to the smallest of them
C15_PackVoltageFromCells ==
    [][InfoTaken /\ CrcFrameValid(data') =>
          LET w == CellWords(data')
          IN  /\ bmsData'.voltage = SumTo(w, 16)
              /\ \A n \in 1..16 :
                    /\ w[n] <= bmsData'.max_cell_voltage
                    /\ w[n] >= bmsData'.min_cell_voltage
              /\ \E n \in 1..16 : w[n] = bmsData'.max_cell_voltage
              /\ \E n \in 1..16 : w[n] = bmsData'.min_cell_voltage]_vars

\* C16: a valid response that echoes another command than the one issued
\* ends the request with success and is decoded as the response to the
\* command issued
C16_EchoMismatchAccepted ==
    [][/\ pc = "daly_check"
       /\ responseReceived
       /\ ChecksumFrameValid(Received)
       /\ At(Received, 2) # command
       => /\ pc' = "daly_true"
          /\ lastEvent' = "daly_decoded"
          /\ bmsData' = DecodeDaly(command, Received, bmsData)]_vars

C16_Witness ==
    /\ pc = "daly_true"
    /\ lastEvent = "daly_decoded"
    /\ command = 144
    /\ At(Received, 2) = 145
    /\ bmsData.voltage = 340000

\* the fields of the snapshot
Fields == DOMAIN BMSDataInit

\* a step from snapshot `before' to `after' and a decoding of the same
\* frame that turns p into q do the same to field f: both write the same
\* value, or neither writes
SameWrite(f, before, after, p, q) ==
    \/ after[f] = q[f]
    \/ after[f] = before[f] /\ q[f] = p[f]

\* every step of a decoding does to the fields F (bulk frame) and G
\* (checksum-variant response) what it would do to them from any other
\* snapshot
DecodeIndependentOn(F, G) ==
    /\ InfoTaken =>
          \A p \in Priors : \A f \in F :
              SameWrite(f, bmsData, bmsData', p, DecodeCells(data', p))
    /\ pc = "info_check" /\ data # <<>> /\ pc' # "info_check" =>
          \A p \in Priors : \A f \in F :
              SameWrite(f, bmsData, bmsData', p, DecodeRest(data, p))
    /\ DalyEnds =>
          \A p \in Priors : \A f \in G :
              SameWrite(f, bmsData, bmsData', p,
                        parseDalyResponse(command, lastResponse, p))

\* C18: decoding a frame writes the same values to the same
\* fields whatever the snapshot held before
C18_DecodeIndependentOfPrior ==
    [][DecodeIndependentOn(Fields, Fields)]_vars

\* C19: after a temperature-range response is decoded, the max and min
\* temperature of the snapshot are the raw bytes less 40
C19_TemperatureOffset ==
    [][/\ DalyEnds
       /\ command = 146
       /\ ChecksumFrameValid(Received)
       /\ At(Received, 2) = 146
       => /\ bmsData'.max_temp = At(Received, 4) - 40
          /\ bmsData'.min_temp = At(Received, 6) - 40]_vars

\* C20: after a 0x90 response is decoded, voltage is raw x 0.1 V (here
\* raw x 100 mV), current is (raw - 30000) x 0.1 A (x 100 mA), negative
\* below 30000, and soc is raw x 0.1 % (here in units of 0.1 %)
C20_VoltageCurrentSoc ==
    [][/\ DalyEnds
       /\ command = 144
       /\ ChecksumFrameValid(Received)
       /\ At(Received, 2) = 144
       => /\ bmsData'.voltage = Word(Received, 4) * 100
          /\ bmsData'.current = (Word(Received, 6) - 30000) * 100
          /\ bmsData'.soc = Word(Received, 8)]_vars

C20_Witness ==
    /\ pc = "daly_true"
    /\ lastEvent = "daly_decoded"
    /\ command = 144
    /\ Word(Received, 6) = 29999
    /\ bmsData.current = 0 - 100
    /\ bmsData.voltage = 52000
    /\ bmsData.soc = 1000

\* C21: the frame sendDalyCommand writes for command id c is the 13 bytes
\* A5 80 c 08, eight 00 and the 8-bit sum of these twelve, and it passes
\* the verification of the 8-bit-sum checksum
C21_CommandFrameRoundTrip ==
    pc = "daly_sent" =>
        /\ message =
              <<165, 128, command, 8, 0, 0, 0, 0, 0, 0, 0, 0,
                (165 + 128 + command + 8) % 256>>
        /\ verifyChecksum(message, Len(message))

C21_Witness ==
    /\ pc = "daly_sent"
    /\ command = 144
    /\ message = <<165, 128, 144, 8, 0, 0, 0, 0, 0, 0, 0, 0, 189>>

\* a command is written to the write characteristic
CommandWritten == outstanding' > outstanding

\* C23: a command is written only when notifications have been enabled on
\* the notify characteristic: it can notify and its 0x2902 descriptor was
\* written
C23_NoCommandBeforeNotifications ==
    [][CommandWritten => notifyEnabled']_vars

\* C24: a request during which a notification was delivered, at any time
\* from the write of the command on, does not end in a timeout
C24_DeliveredResponseNotLost ==
    [][RequestEnds /\ delivered => lastEvent' # "info_timeout"]_vars

\* C25: when the sixteen cell words of a bulk frame all lie in the range
\* the decoder counts, the pack voltage is their exact sum (mV)
C25_CellSumExact ==
    [][InfoTaken /\ (\A n \in 1..16 : CellWords(data')[n] > 2560
                                      /\ CellWords(data')[n] < 4608)
          => bmsData'.voltage = SumTo(CellWords(data'), 16)]_vars

\* a device becomes the candidate that was not the candidate before
CandidateAdopted ==
    discovered_bms_mac' # discovered_bms_mac /\ discovered_bms_mac' # ""

\* C26: whenever a new candidate is adopted, the counter of consecutive
\* failed attempts is 0, so that the candidate has all five attempts
C26_NewCandidateFullBudget ==
    [][CandidateAdopted => connectionAttempts' = 0]_vars

\* a request has ended without a decoded frame: the response was
\* malformed, or none came before the timeout
RequestFailed == lastEvent \in {"info_timeout", "info_ignored"}

\* C22: a request that ends with a malformed frame or a timeout leaves the
\* candidate, the session flags and the failure counters as they were; the
\* connection check that follows keeps the session connected while the
\* transport is up; and a later read is issued unless the transport goes
\* down
C22_ErrorsKeepSession ==
    /\ [][RequestEnds /\ RequestFailed' =>
             /\ UNCHANGED <<candidate, session, link, failures>>
             /\ pc' \in {"tick", "tick_read_done"}]_vars
    /\ [][pc = "tick_read_done" /\ RequestFailed /\ connected /\ linkUp =>
             connected']_vars
    /\ (RequestFailed /\ connected /\ linkUp)
          ~> (lastEvent = "info_written" \/ ~linkUp)

C22_Witness ==
    /\ lastEvent = "info_written"
    /\ pc = "info_wait"
    /\ ret = "tick_read_done"
    /\ report # NoReport
    /\ report = BMSDataInit
    /\ connected
    /\ linkUp

\* C27: once the transport is down while the session is connected, the
\* session leaves the connected state; and once loop has noticed the loss,
\* with auto-connect on and a candidate held, a connect attempt is made
C27_LossRecovered ==
    /\ (connected /\ ~linkUp) ~> (~connected \/ pc = "connecting")
    /\ (lastEvent = "lost" /\ autoConnect /\ discovered_bms_mac # "")
          ~> (pc = "connecting" \/ ~autoConnect \/ discovered_bms_mac = "")

C27_Witness ==
    /\ lastEvent = "lost"
    /\ pc = "loop"
    /\ ~connected
    /\ ~linkUp
    /\ autoConnect
    /\ discovered_bms_mac # ""
    /\ age.connect >= CONNECT_INTERVAL

\* C28: after the candidate was discarded, loop runs a scan, unless the
\* session got connected before; and when the target keeps advertising, it
\* becomes the candidate again
C28_DiscardLeadsToScan ==
    /\ lastEvent = "connect_discard"
          ~> ((pc = "scanning" /\ ret = "tick_scanned") \/ connected)
    /\ lastEvent = "connect_discard"
          ~> (discovered_bms_mac = TARGET_BMS_MAC \/ connected)

C28_Witness ==
    /\ pc = "scanning"
    /\ ret = "tick_scanned"
    /\ heard = 1
    /\ discovered_bms_mac = TARGET_BMS_MAC
    /\ connectionAttempts = 0
    /\ pClient
    /\ gatt = NoService
    /\ ~connected
    /\ eventsLeft = MaxEvents

\* the operator's reset command is carried out
ResetDone == pc = "loop" /\ pc' = "tick" /\ lastEvent' = "reset"

\* a connect attempt starts
AttemptStarts == pc # "connecting" /\ pc' = "connecting"

\* C29: after the operator's reset the session holds no candidate (address
\* and name empty, target-found flag false), is not connected and the
\* transport is down; a connect attempt starts only with a candidate, and
\* a candidate appears only when a scan reports one
C29_ResetClearsSession ==
    /\ [][ResetDone =>
             /\ discovered_bms_mac' = ""
             /\ discovered_bms_name' = ""
             /\ ~bms_found_by_scan'
             /\ ~connected'
             /\ ~linkUp'
             /\ SessionState' = "Idle"]_vars
    /\ [][AttemptStarts => discovered_bms_mac # ""]_vars
    /\ [][discovered_bms_mac = "" /\ discovered_bms_mac' # "" =>
             pc = "scanning"]_vars

C29_Witness ==
    /\ lastEvent = "reset"
    /\ pc = "loop"
    /\ pClient
    /\ gatt # NoService
    /\ ~linkUp
    /\ ~connected
    /\ discovered_bms_mac = ""
    /\ discovered_bms_name = ""
    /\ ~bms_found_by_scan

\* C30: while auto-connect is off, a connect attempt starts only by the
\* operator's connect command, never by loop
C30_NoAutoConnectWhenDisabled ==
    [][~autoConnect /\ AttemptStarts =>
          lastEvent' = "operator_connect"]_vars

C30_Witness ==
    /\ ~autoConnect
    /\ pc = "loop"
    /\ lastEvent = "scanned"
    /\ discovered_bms_mac # ""
    /\ ~connected
    /\ age.connect >= CONNECT_INTERVAL
    /\ eventsLeft = 0

\* C32: while no candidate is known no connect attempt is made, by loop or
\* by the operator's connect command: no client is created, no attempt is
\* counted and pClient->connect is not called
C32_NoAttemptWithoutCandidate ==
    [][discovered_bms_mac = "" =>
          /\ pClient' = pClient
          /\ connectionAttempts' = connectionAttempts
          /\ pc' = "connecting" => pc = "connecting"]_vars

C32_Witness ==
    /\ pc = "scanning"
    /\ ret = "tick_scanned"
    /\ heard = 0
    /\ discovered_bms_mac = ""
    /\ autoConnect
    /\ age.connect >= CONNECT_INTERVAL
    /\ ~pClient
    /\ connectionAttempts = 0

\* C33: outside connectToBMS the counter of failed attempts is in 0..4, and
\* it is 0 whenever the session is connected
C33_FailureCounterRange ==
    pc # "connecting" =>
        /\ connectionAttempts \in 0..4
        /\ connected => connectionAttempts = 0

C33_Witness ==
    /\ pc = "loop"
    /\ lastEvent = "connect_failed"
    /\ connectionAttempts = 4
    /\ ~connected
    /\ discovered_bms_mac # ""

C34_ClockWrapSafe ==
    /\ pc = "clock_wait" =>
          (WaitOver32(clock) <=> waited >= INFO_TIMEOUT)
    /\ pc = "clock_loop" /\ connected =>
          (ReadGate32(clock) <=> age.read >= READ_INTERVAL)
    /\ pc = "clock_loop" /\ ~connected =>
          /\ ScanGate32(clock) <=> age.scan >= SCAN_INTERVAL
          /\ ConnectGate32(clock) <=> age.connect >= CONNECT_INTERVAL

\* C35: whatever the length of the buffer, validateResponse reads only
\* indices below the length
C35_ValidateReadsInside ==
    [][pc = "validate" /\ pc' # "validate" =>
          \A i \in ValidateReads(data, Len(data)) : i < Len(data)]_vars

====
